---- MODULE Spec2Model ----
(***************************************************************************)
(* Model of app.py, the accent-similarity listening study: a Streamlit     *)
(* script that is re-executed top to bottom for every interaction of a     *)
(* browser session, keeps its per-session data in st.session_state and    *)
(* its per-participant progress in results/<pid>_progress.json.            *)
(*                                                                         *)
(* Streamlit behaviour the script relies on and the model reproduces:      *)
(*  - st.session_state lives as long as the browser session and the        *)
(*    server process; a new browser session starts from an empty one;      *)
(*  - st.radio(options, key=k) is created with its default index 0, so     *)
(*    after the call st.session_state[k] exists and holds options[0]       *)
(*    until the participant picks another option;                          *)
(*  - the state of a keyed widget that a run does not create is dropped    *)
(*    at the end of that run;                                              *)
(*  - st.button is True only in the run its click triggers;                *)
(*  - st.rerun() ends the run and starts the script again; st.stop() and   *)
(*    an uncaught exception end the run and leave st.session_state as is.  *)
(***************************************************************************)
EXTENDS Integers, Sequences, FiniteSets, TLC

(***************************************************************************)
(* Bounds of the model.                                                    *)
(***************************************************************************)
\* app.py:14 sets TOTAL_TRIALS = 50; the model walks a shorter study.
TOTAL_TRIALS == 2
\* Longest name typed into the name field.
MaxNameLen == 3
\* Number of distinct values of the shortened name hash.
HashBuckets == 2
\* Last trial position whose rating keys are formatted (two digits from 10 on).
MaxPos == 11

None == <<>>

Sessions == {"s1", "s2"}

(***************************************************************************)
(* Names and the participant ID (app.py:167-175).                          *)
(***************************************************************************)
Whitespace == {" ", "\t"}
Alphabet   == {" ", "a", "A", "_"}

\* Every text the name field can hold.
Names == UNION {[1..n -> Alphabet] : n \in 0..MaxNameLen}

\* The names the participants of the session model type.
SessionNames == {<<>>, <<" ", "\t">>, <<"a">>, <<" ", "A">>}

RECURSIVE LStrip(_)
LStrip(str) ==
    IF str = <<>> THEN <<>>
    ELSE IF Head(str) \in Whitespace THEN LStrip(Tail(str)) ELSE str

RECURSIVE RStrip(_)
RStrip(str) ==
    IF str = <<>> THEN <<>>
    ELSE IF str[Len(str)] \in Whitespace THEN RStrip(SubSeq(str, 1, Len(str) - 1))
    ELSE str

\* str.strip()
Strip(str) == RStrip(LStrip(str))

\* str.replace(" ", "_")
ReplaceSpaces(str) == [i \in 1..Len(str) |-> IF str[i] = " " THEN "_" ELSE str[i]]

\* str.upper()
Upper(str) == [i \in 1..Len(str) |-> IF str[i] = "a" THEN "A" ELSE str[i]]

CharCode(c) ==
    CASE c = " "  -> 32
      [] c = "\t" -> 9
      [] c = "a"  -> 97
      [] c = "A"  -> 65
      [] c = "_"  -> 95

RECURSIVE Digest(_)
Digest(str) ==
    IF str = <<>> THEN 0
    ELSE (Len(str) * CharCode(str[Len(str)]) + Digest(SubSeq(str, 1, Len(str) - 1)))

HexDigits == <<"0", "1", "2", "3", "4", "5", "6", "7", "8", "9">>

\* hashlib.md5(clean_name.encode()).hexdigest()[:6]: a fixed-length value
\* determined by the text, with collisions between different texts.
Md5Prefix(str) == <<HexDigits[(Digest(str) % HashBuckets) + 1]>>

\* name_input.strip() == ""
IsBlankNoStrip(name) == name = <<>>
IsBlank(name) == Strip(name) = <<>>

CleanName(name) == Upper(ReplaceSpaces(Strip(name)))

ParticipantIdHashOnly(name) == Md5Prefix(CleanName(name))
ParticipantId(name) == CleanName(name) \o <<"_">> \o Md5Prefix(CleanName(name))


(***************************************************************************)
(* The trial catalog, the widgets of a trial and the files.                *)
(***************************************************************************)
\* Numbers of rows of trials.csv the model is run with (len(df)).
CatalogSizes == 1..TOTAL_TRIALS

\* The results of random.shuffle(list(range(n))), as 1-indexed sequences.
Perms(n) == {f \in [1..n -> 0..(n - 1)] : \A i, j \in 1..n : f[i] = f[j] => i = j}

AnchorOrders == {"native_first", "indian_first"}
SampleOrders == {"A_first", "B_first"}
AnchorLabels == {"Native Accent", "Indian Accent"}
SampleLabels == {"Sample A", "Sample B"}

\* options=[1, 2, 3, 4, 5] of st.radio
Options == <<1, 2, 3, 4, 5>>
\* The options the participants of the model click.
UserPicks == {3}

\* f"rating_{trial_pos}_{anchor_label}_{sample_label}"
RatingKey(pos, anchor_label, sample_label) == <<"rating", pos, anchor_label, sample_label>>

\* The four radio widgets the script creates for a trial position.
TrialKeys(pos) == {RatingKey(pos, a, m) : a \in AnchorLabels, m \in SampleLabels}

\* str(n): the decimal digits of a position.
RECURSIVE Digits(_)
Digits(n) ==
    IF n < 10 THEN <<HexDigits[n + 1]>>
    ELSE Digits(n \div 10) \o <<HexDigits[(n % 10) + 1]>>

\* The text of a rating key, f"rating_{trial_pos}_{anchor_label}_{sample_label}":
\* the word, the digits of the position one by one, the two labels.
KeyText(k) == <<"rating", "_">> \o Digits(k[2]) \o <<"_", k[3], "_", k[4]>>

\* f"rating_{trial_pos}_"
RatingPrefixNoUnderscore(pos) == <<"rating", "_">> \o Digits(pos)
RatingPrefix(pos) == <<"rating", "_">> \o Digits(pos) \o <<"_">>

\* text.startswith(prefix)
StartsWith(text, prefix) ==
    Len(prefix) <= Len(text) /\ SubSeq(text, 1, Len(prefix)) = prefix

\* k.startswith(f"rating_{trial_pos}_")
StartsWithRating(k, pos) == StartsWith(KeyText(k), RatingPrefix(pos))

EmptyMap == [k \in {} |-> 0]
Put(f, k, v) == [x \in (DOMAIN f) \cup {k} |-> IF x = k THEN v ELSE f[x]]
Remove(f, k) == [x \in (DOMAIN f) \ {k} |-> f[x]]

\* What a progress file can hold: a snapshot save_progress wrote, the part
\* of one that had reached the file when the process died ("truncated"),
\* and content the application did not write: text that is no JSON
\* ("unparseable"), JSON that is false in a condition, such as {} or null
\* ("falsy"), and JSON that is true in a condition but no snapshot, such
\* as {"a": 1} ("truthy").
ForeignKinds == {"unparseable", "falsy", "truthy"}
Junk(kind) == [kind |-> kind]
NoData == [kind |-> "none"]

VARIABLES
    df_rows,        \* len(df): number of rows of the trial catalog
    progress,       \* results/<pid>_progress.json: pid -> content, for the files that exist
    final,          \* results/<pid>_final.csv: pid -> responses, for the files that exist
    participant_id, \* st.session_state.participant_id, per session
    trial_order,    \* st.session_state.trial_order
    trial_index,    \* st.session_state.trial_index
    responses,      \* st.session_state.responses
    anchor,         \* st.session_state["anchor_<pos>"]: pos -> anchor order
    ab,             \* st.session_state["ab_<pos>_<anchor>"]: <<pos, anchor>> -> sample order
    rating,         \* st.session_state["rating_..."]: rating key -> option
    name_input,     \* the text of the name field at the last Start / Resume click
    warning,        \* the page shows "Name required."
    pc,             \* where the session is: the page it shows, or the step of a run
                    \* ("rerun": a run is due; "saving": inside save_progress with
                    \* the file open; "saving_unlinked": the same, the file removed)
    chosen,         \* history: the rating keys the participant has clicked an option of
    first_order,    \* history: pid -> the trial order first generated for it
    durable         \* history: pid -> the last snapshot save_progress wrote in full
                    \* that is still in its file or was emptied by a later open

session_vars == <<participant_id, trial_order, trial_index, responses, anchor, ab,
                  rating, name_input, warning, pc, chosen>>
file_vars    == <<progress, final>>
history_vars == <<first_order, durable>>
vars == <<df_rows, file_vars, session_vars, history_vars>>

\* The pages a session rests on between two interactions.
Pages == {"instructions", "active", "complete", "error"}

(***************************************************************************)
(* SESSION INIT (app.py:39-49) and the empty results folder.               *)
(***************************************************************************)
Init ==
    /\ df_rows \in CatalogSizes
    /\ progress = EmptyMap
    /\ final = EmptyMap
    /\ participant_id = [s \in Sessions |-> None]
    /\ trial_order = [s \in Sessions |-> None]
    /\ trial_index = [s \in Sessions |-> 0]
    /\ responses = [s \in Sessions |-> <<>>]
    /\ anchor = [s \in Sessions |-> EmptyMap]
    /\ ab = [s \in Sessions |-> EmptyMap]
    /\ rating = [s \in Sessions |-> EmptyMap]
    /\ name_input = [s \in Sessions |-> <<>>]
    /\ warning = [s \in Sessions |-> FALSE]
    /\ pc = [s \in Sessions |-> "instructions"]
    /\ chosen = [s \in Sessions |-> {}]
    /\ first_order = EmptyMap
    /\ durable = EmptyMap

(***************************************************************************)
(* load_progress (app.py:55-68).                                           *)
(***************************************************************************)
\* json.load(f) raises
LoadFails(pid) == pid \in DOMAIN progress /\ progress[pid].kind \in {"truncated", "unparseable"}

\* The value load_progress returns.
load_progress(pid) ==
    IF pid \notin DOMAIN progress \/ LoadFails(pid) THEN NoData ELSE progress[pid]

\* The progress files after load_progress: a file that fails to load is removed.
FilesAfterLoad(pid) == IF LoadFails(pid) THEN Remove(progress, pid) ELSE progress

\* if progress:
Truthy(data) == data.kind \in {"snapshot", "truthy"}

\* progress["trial_order"] etc. find their keys
IsSnapshot(data) == data.kind = "snapshot"

\* os.remove(progress_file) while a session is inside save_progress with
\* the file open: the name is gone and what that session writes goes to a
\* file without a name.
Unlink(where, pid) ==
    [t \in Sessions |->
        IF where[t] = "saving" /\ participant_id[t] = pid THEN "saving_unlinked"
        ELSE where[t]]

(***************************************************************************)
(* Start / Resume (app.py:163-196).                                        *)
(***************************************************************************)
\* indices = list(range(len(df))); random.shuffle(indices)
ShuffledWithRepeats(n) == [1..n -> 0..(n - 1)]
Shuffled(n) == Perms(n)

\* st.session_state.trial_index = progress["trial_index"]
ResumeIndexZero(data) == 0
ResumeIndex(data) == data.trial_index

\* The click with an empty name (app.py:167-168): st.warning("Name
\* required."), then st.stop().
StartBlank(s, name) ==
    /\ name_input' = [name_input EXCEPT ![s] = name]
    /\ warning' = [warning EXCEPT ![s] = TRUE]
    /\ UNCHANGED <<participant_id, trial_order, trial_index, responses, anchor, ab,
                   rating, pc, chosen>>
    /\ UNCHANGED <<df_rows, file_vars, history_vars>>

\* The stored progress is restored (app.py:181-185), then st.rerun().
StartResumed(s, name) ==
    LET pid  == ParticipantId(name)
        data == load_progress(pid)
    IN  /\ participant_id' = [participant_id EXCEPT ![s] = pid]
        /\ trial_order' = [trial_order EXCEPT ![s] = data.trial_order]
        /\ trial_index' = [trial_index EXCEPT ![s] = ResumeIndex(data)]
        /\ responses' = [responses EXCEPT ![s] = data.responses]
        /\ pc' = [pc EXCEPT ![s] = "rerun"]
        /\ name_input' = [name_input EXCEPT ![s] = name]
        /\ warning' = [warning EXCEPT ![s] = FALSE]
        /\ progress' = FilesAfterLoad(pid)
        /\ UNCHANGED <<anchor, ab, rating, chosen, df_rows, final, history_vars>>

\* The stored progress is true in "if progress:" and is no snapshot:
\* line 182 raises after line 177 has set the participant ID.
StartRaises(s, name) ==
    LET pid  == ParticipantId(name)
        data == load_progress(pid)
    IN  /\ participant_id' = [participant_id EXCEPT ![s] = pid]
        /\ pc' = [pc EXCEPT ![s] = "error"]
        /\ name_input' = [name_input EXCEPT ![s] = name]
        /\ warning' = [warning EXCEPT ![s] = FALSE]
        /\ progress' = FilesAfterLoad(pid)
        /\ UNCHANGED <<trial_order, trial_index, responses, anchor, ab, rating, chosen,
                       df_rows, final, history_vars>>

\* No progress: a new session with a shuffled order (app.py:186-192), then
\* st.rerun().
StartFresh(s, name) ==
    LET pid  == ParticipantId(name)
        data == load_progress(pid)
    IN  /\ \E indices \in Shuffled(df_rows) :
              /\ trial_order' = [trial_order EXCEPT ![s] = indices]
              /\ first_order' = IF pid \in DOMAIN first_order THEN first_order
                                ELSE Put(first_order, pid, indices)
        /\ participant_id' = [participant_id EXCEPT ![s] = pid]
        /\ trial_index' = [trial_index EXCEPT ![s] = 0]
        /\ responses' = [responses EXCEPT ![s] = <<>>]
        /\ pc' = [(IF LoadFails(pid) THEN Unlink(pc, pid) ELSE pc) EXCEPT ![s] = "rerun"]
        /\ name_input' = [name_input EXCEPT ![s] = name]
        /\ warning' = [warning EXCEPT ![s] = FALSE]
        /\ progress' = FilesAfterLoad(pid)
        /\ durable' = IF LoadFails(pid) THEN Remove(durable, pid) ELSE durable
        /\ UNCHANGED <<anchor, ab, rating, chosen, df_rows, final>>

\* The participant types a name and clicks Start / Resume on the
\* instructions page.
StartResume(s, name) ==
    /\ pc[s] = "instructions"
    /\ IF IsBlank(name) THEN StartBlank(s, name)
       ELSE IF ~Truthy(load_progress(ParticipantId(name))) THEN StartFresh(s, name)
       ELSE IF IsSnapshot(load_progress(ParticipantId(name))) THEN StartResumed(s, name)
       ELSE StartRaises(s, name)

(***************************************************************************)
(* A run of the script for a session with a participant ID: COMPLETION     *)
(* CHECK (app.py:202-221), CURRENT TRIAL, FREEZE ANCHOR ORDER and RATING   *)
(* BLOCKS (app.py:227-307).                                                *)
(***************************************************************************)
\* if st.session_state.trial_index >= TOTAL_TRIALS:
IsCompletePast(s) == trial_index[s] > TOTAL_TRIALS
IsComplete(s) == trial_index[s] >= TOTAL_TRIALS

\* if os.path.exists(progress_file): os.remove(progress_file)
ProgressKept(pid) == progress
ProgressRemoved(pid) == Remove(progress, pid)

\* The final CSV is written, the progress file removed, st.stop().
Completion(s) ==
    LET pid == participant_id[s]
    IN  /\ pc[s] = "rerun"
        /\ IsComplete(s)
        /\ final' = Put(final, pid, responses[s])
        /\ progress' = ProgressRemoved(pid)
        /\ pc' = [Unlink(pc, pid) EXCEPT ![s] = "complete"]
        /\ rating' = [rating EXCEPT ![s] = EmptyMap]
        /\ chosen' = [chosen EXCEPT ![s] = {}]
        /\ durable' = Remove(durable, pid)
        /\ UNCHANGED <<participant_id, trial_order, trial_index, responses, anchor, ab,
                       name_input, warning, df_rows, first_order>>

\* st.session_state.trial_order[trial_pos] has a value
LookupWorks(s) == trial_order[s] # None /\ trial_index[s] + 1 <= Len(trial_order[s])

\* if key not in st.session_state: st.session_state[key] = random.choice(...)
\* (app.py:243-244, 270-271): the value the key holds afterwards.
RedrawFlag(flags, key, drawn) == drawn
FreezeFlag(flags, key, drawn) == IF key \in DOMAIN flags THEN flags[key] ELSE drawn

\* The trial at trial_index is shown: the order flags of its position are
\* drawn if the session has none, and its four radio widgets are created.
\* a and f are what random.choice returns to this run where it is called:
\* a for the anchor order, f[l] for the sample order under anchor l.
RenderTrial(s, a, f) ==
    LET trial_pos == trial_index[s]
    IN  /\ pc[s] = "rerun"
        /\ ~IsComplete(s)
        /\ LookupWorks(s)
        /\ anchor' = [anchor EXCEPT ![s] = Put(@, trial_pos, FreezeFlag(@, trial_pos, a))]
        /\ ab' = [ab EXCEPT ![s] =
                     [k \in (DOMAIN @) \cup {<<trial_pos, l>> : l \in AnchorLabels} |->
                         IF k[1] = trial_pos THEN FreezeFlag(@, k, f[k[2]]) ELSE @[k]]]
        /\ rating' = [rating EXCEPT ![s] =
                         [k \in TrialKeys(trial_pos) |->
                             IF k \in DOMAIN @ THEN @[k] ELSE Options[1]]]
        /\ chosen' = [chosen EXCEPT ![s] = @ \cap TrialKeys(trial_pos)]
        /\ pc' = [pc EXCEPT ![s] = "active"]
        /\ UNCHANGED <<participant_id, trial_order, trial_index, responses,
                       name_input, warning, df_rows, file_vars, history_vars>>

\* Line 228 raises: the run ends with the exception on the page.
RenderRaises(s) ==
    /\ pc[s] = "rerun"
    /\ ~IsComplete(s)
    /\ ~LookupWorks(s)
    /\ pc' = [pc EXCEPT ![s] = "error"]
    /\ rating' = [rating EXCEPT ![s] = EmptyMap]
    /\ chosen' = [chosen EXCEPT ![s] = {}]
    /\ UNCHANGED <<participant_id, trial_order, trial_index, responses, anchor, ab,
                   name_input, warning, df_rows, file_vars, history_vars>>

ScriptRun(s, a, f) == Completion(s) \/ RenderTrial(s, a, f) \/ RenderRaises(s)

\* A page without widgets is run again (the Rerun command of the page).
Rerender(s) ==
    /\ pc[s] \in {"complete", "error"}
    /\ pc' = [pc EXCEPT ![s] = "rerun"]
    /\ UNCHANGED <<participant_id, trial_order, trial_index, responses, anchor, ab,
                   rating, name_input, warning, chosen>>
    /\ UNCHANGED <<df_rows, file_vars, history_vars>>

(***************************************************************************)
(* The radios and the Next button (app.py:287-333).                        *)
(***************************************************************************)
\* The participant clicks an option of a radio; the run that follows finds
\* the flags and the widgets of the position in place.
SelectRating(s, k, v) ==
    /\ pc[s] = "active"
    /\ k \in DOMAIN rating[s]
    /\ rating[s][k] # v
    /\ rating' = [rating EXCEPT ![s][k] = v]
    /\ chosen' = [chosen EXCEPT ![s] = @ \cup {k}]
    /\ UNCHANGED <<participant_id, trial_order, trial_index, responses, anchor, ab,
                   name_input, warning, pc>>
    /\ UNCHANGED <<df_rows, file_vars, history_vars>>

\* The click on an option of a radio, up to the start of the run it
\* triggers, which draws from random.choice wherever the script calls it.
SelectRatingRun(s, k, v) ==
    /\ pc[s] = "active"
    /\ k \in DOMAIN rating[s]
    /\ rating[s][k] # v
    /\ rating' = [rating EXCEPT ![s][k] = v]
    /\ chosen' = [chosen EXCEPT ![s] = @ \cup {k}]
    /\ pc' = [pc EXCEPT ![s] = "rerun"]
    /\ UNCHANGED <<participant_id, trial_order, trial_index, responses, anchor, ab,
                   name_input, warning>>
    /\ UNCHANGED <<df_rows, file_vars, history_vars>>

\* all_selected: no rating key of the position is missing from
\* st.session_state after its radio was created (app.py:255, 304-305).
all_selected(s) == \A k \in TrialKeys(trial_index[s]) : k \in DOMAIN rating[s]

\* The response of app.py:317-326 (the transcript follows from the row, the
\* timestamp is left out).
Response(s) ==
    [trial_id |-> trial_order[s][trial_index[s] + 1],
     ratings  |-> [k \in {x \in DOMAIN rating[s] : StartsWithRating(x, trial_index[s])} |->
                     rating[s][k]]]

\* The data save_progress writes (app.py:91-95).
Snapshot(s) ==
    [kind |-> "snapshot", trial_order |-> trial_order[s],
     trial_index |-> trial_index[s], responses |-> responses[s]]

\* st.session_state.responses.append(response)
AppendResponseTwice(rs, r) == Append(Append(rs, r), r)
AppendResponse(rs, r) == Append(rs, r)

\* st.session_state.trial_index += 1
IncrementTwice(i) == i + 2
Increment(i) == i + 1

\* The click on the enabled Next button, up to open(progress_file, "w") in
\* save_progress, which empties the file.
NextSubmit(s) ==
    /\ pc[s] = "active"
    /\ all_selected(s)
    /\ responses' = [responses EXCEPT ![s] = AppendResponse(@, Response(s))]
    /\ trial_index' = [trial_index EXCEPT ![s] = Increment(@)]
    /\ progress' = Put(progress, participant_id[s], Junk("truncated"))
    /\ pc' = [pc EXCEPT ![s] = "saving"]
    /\ UNCHANGED <<participant_id, trial_order, anchor, ab, rating, name_input,
                   warning, chosen, df_rows, final, history_vars>>

\* What the progress file of the session can hold after json.dump(data, f)
\* and the close of the file. The text is written from the start of the
\* file the session opened. If nothing was written to the file since, it
\* holds the snapshot. If another session of the participant wrote its own
\* snapshot meanwhile, a longer text (more responses) covers it, a shorter
\* one leaves its tail behind, which json.load rejects, and with as many
\* responses the lengths of the two texts decide.
WriteOutcomes(s) ==
    LET stored == progress[participant_id[s]]
    IN  IF stored.kind # "snapshot" THEN {Snapshot(s)}
        ELSE IF Len(responses[s]) > Len(stored.responses) THEN {Snapshot(s)}
        ELSE IF Len(responses[s]) < Len(stored.responses) THEN {Junk("unparseable")}
        ELSE {Snapshot(s), Junk("unparseable")}

\* json.dump(data, f) and the close of the file, then st.rerun().
SaveWrite(s) ==
    /\ pc[s] \in {"saving", "saving_unlinked"}
    /\ IF pc[s] = "saving_unlinked"
       THEN UNCHANGED <<progress, durable>>
       ELSE \E data \in WriteOutcomes(s) :
               /\ progress' = Put(progress, participant_id[s], data)
               /\ durable' = IF data.kind = "snapshot"
                             THEN Put(durable, participant_id[s], data)
                             ELSE Remove(durable, participant_id[s])
    /\ pc' = [pc EXCEPT ![s] = "rerun"]
    /\ UNCHANGED <<participant_id, trial_order, trial_index, responses, anchor, ab,
                   rating, name_input, warning, chosen, df_rows, final, first_order>>

(***************************************************************************)
(* The environment: the browser, the server process, the results folder.   *)
(***************************************************************************)
\* The participant closes the browser and opens the page again: a new
\* session, whose st.session_state SESSION INIT fills.
BrowserRestart(s) ==
    /\ pc[s] \in Pages
    /\ participant_id[s] # None
    /\ participant_id' = [participant_id EXCEPT ![s] = None]
    /\ trial_order' = [trial_order EXCEPT ![s] = None]
    /\ trial_index' = [trial_index EXCEPT ![s] = 0]
    /\ responses' = [responses EXCEPT ![s] = <<>>]
    /\ anchor' = [anchor EXCEPT ![s] = EmptyMap]
    /\ ab' = [ab EXCEPT ![s] = EmptyMap]
    /\ rating' = [rating EXCEPT ![s] = EmptyMap]
    /\ name_input' = [name_input EXCEPT ![s] = <<>>]
    /\ warning' = [warning EXCEPT ![s] = FALSE]
    /\ pc' = [pc EXCEPT ![s] = "instructions"]
    /\ chosen' = [chosen EXCEPT ![s] = {}]
    /\ UNCHANGED <<df_rows, file_vars, history_vars>>

\* The server process dies in the middle of a run and is started again:
\* every session is lost, and a file save_progress had opened and not yet
\* written stays as it is.
Crash ==
    /\ \E s \in Sessions : pc[s] \in {"saving", "saving_unlinked", "rerun"}
    /\ participant_id' = [s \in Sessions |-> None]
    /\ trial_order' = [s \in Sessions |-> None]
    /\ trial_index' = [s \in Sessions |-> 0]
    /\ responses' = [s \in Sessions |-> <<>>]
    /\ anchor' = [s \in Sessions |-> EmptyMap]
    /\ ab' = [s \in Sessions |-> EmptyMap]
    /\ rating' = [s \in Sessions |-> EmptyMap]
    /\ name_input' = [s \in Sessions |-> <<>>]
    /\ warning' = [s \in Sessions |-> FALSE]
    /\ pc' = [s \in Sessions |-> "instructions"]
    /\ chosen' = [s \in Sessions |-> {}]
    /\ UNCHANGED <<df_rows, file_vars, history_vars>>

\* A progress file is replaced from outside the application.
CorruptFile(pid, kind) ==
    /\ pid \in DOMAIN progress
    /\ progress[pid].kind = "snapshot"
    /\ progress' = [progress EXCEPT ![pid] = Junk(kind)]
    /\ durable' = Remove(durable, pid)
    /\ UNCHANGED <<df_rows, final, session_vars, first_order>>

(***************************************************************************)
(* One browser session at a time: the participants of SessionNames start,  *)
(* rate, submit, leave and come back.                                      *)
(***************************************************************************)
Solo == {"s1"}

\* The outcomes of random.choice in the session model. The flags decide the
\* order of the blocks on the page and nothing else.
SoloAnchorOrders == {"native_first"}
SoloSampleOrders == {"A_first"}

\* The radios of a trial the participants of the model click: the others
\* keep the option they start with.
ClickedKeys(pos) == {RatingKey(pos, "Native Accent", "Sample A")}

Next ==
    \/ \E s \in Solo, name \in SessionNames : StartResume(s, name)
    \/ \E s \in Solo, a \in SoloAnchorOrders, f \in [AnchorLabels -> SoloSampleOrders] :
          ScriptRun(s, a, f)
    \/ \E s \in Solo : Rerender(s)
    \/ \E s \in Solo : \E k \in ClickedKeys(trial_index[s]), v \in UserPicks : SelectRating(s, k, v)
    \/ \E s \in Solo : NextSubmit(s)
    \/ \E s \in Solo : SaveWrite(s)
    \/ \E s \in Solo : BrowserRestart(s)

Spec == Init /\ [][Next]_vars

(***************************************************************************)
(* The same session with faults: the server process dies and progress      *)
(* files are altered from outside. The participants submit the ratings     *)
(* the radios start with.                                                  *)
(***************************************************************************)
FaultNext ==
    \/ \E s \in Solo, name \in SessionNames : StartResume(s, name)
    \/ \E s \in Solo, a \in SoloAnchorOrders, f \in [AnchorLabels -> SoloSampleOrders] :
          ScriptRun(s, a, f)
    \/ \E s \in Solo : Rerender(s)
    \/ \E s \in Solo : NextSubmit(s)
    \/ \E s \in Solo : SaveWrite(s)
    \/ \E s \in Solo : BrowserRestart(s)
    \/ Crash
    \/ \E pid \in DOMAIN progress, kind \in ForeignKinds : CorruptFile(pid, kind)

FaultSpec == Init /\ [][FaultNext]_vars

(***************************************************************************)
(* The participant ID as a function of the name: two browser sessions, in  *)
(* each of which any name of Names is entered once.                        *)
(***************************************************************************)
IdInit == Init /\ df_rows = 1

IdNext == \E s \in {t \in Sessions : pc[t] = "instructions"}, name \in Names : StartResume(s, name)

IdSpec == IdInit /\ [][IdNext]_vars

(***************************************************************************)
(* Two browser sessions open at the same time in which the same name is    *)
(* entered: the script runs of the two interleave, each with its own       *)
(* st.session_state, on the one progress file of the participant.          *)
(***************************************************************************)
DuoNames == {<<"a">>}

DuoNext ==
    \/ \E s \in Sessions, name \in DuoNames : StartResume(s, name)
    \/ \E s \in Sessions, a \in SoloAnchorOrders, f \in [AnchorLabels -> SoloSampleOrders] :
          ScriptRun(s, a, f)
    \/ \E s \in Sessions : NextSubmit(s)
    \/ \E s \in Sessions : SaveWrite(s)

DuoSpec == Init /\ [][DuoNext]_vars

(***************************************************************************)
(* The order flags: one session in which every run draws any of the        *)
(* outcomes of random.choice, and the runs that the clicks on the radios   *)
(* trigger are steps of their own.                                         *)
(***************************************************************************)
FlagNext ==
    \/ \E s \in Solo, name \in DuoNames : StartResume(s, name)
    \/ \E s \in Solo, a \in AnchorOrders, f \in [AnchorLabels -> SampleOrders] :
          ScriptRun(s, a, f)
    \/ \E s \in Solo : \E k \in ClickedKeys(trial_index[s]), v \in UserPicks :
          SelectRatingRun(s, k, v)
    \/ \E s \in Solo : NextSubmit(s)
    \/ \E s \in Solo : SaveWrite(s)

FlagSpec == Init /\ [][FlagNext]_vars

(***************************************************************************)
(* The rating keys of the Next handler: besides the session that starts    *)
(* on the instructions page, sessions on the page of any position up to    *)
(* MaxPos of a study as long as the one of app.py, whose st.session_state  *)
(* also holds the rating keys of one other position, with all earlier      *)
(* positions answered.                                                     *)
(***************************************************************************)
KeyPositions == 0..MaxPos

\* The responses of the positions before pos, in catalog order.
Answered(pos) ==
    [i \in 1..pos |-> [trial_id |-> i - 1,
                       ratings  |-> [k \in TrialKeys(i - 1) |-> Options[1]]]]

\* The session on the page of position pos, the keys of position other in
\* its st.session_state.
OnPage(pos, other) ==
    /\ df_rows = MaxPos + 1
    /\ progress = EmptyMap
    /\ final = EmptyMap
    /\ participant_id = [s \in Sessions |-> IF s \in Solo THEN ParticipantId(<<"a">>) ELSE None]
    /\ trial_order = [s \in Sessions |-> IF s \in Solo THEN [i \in 1..(MaxPos + 1) |-> i - 1] ELSE None]
    /\ trial_index = [s \in Sessions |-> IF s \in Solo THEN pos ELSE 0]
    /\ responses = [s \in Sessions |-> IF s \in Solo THEN Answered(pos) ELSE <<>>]
    /\ anchor = [s \in Sessions |-> EmptyMap]
    /\ ab = [s \in Sessions |-> EmptyMap]
    /\ rating = [s \in Sessions |->
                    IF s \in Solo
                    THEN [k \in TrialKeys(pos) \cup TrialKeys(other) |->
                             IF k[2] = pos THEN Options[1] ELSE Options[5]]
                    ELSE EmptyMap]
    /\ name_input = [s \in Sessions |-> IF s \in Solo THEN <<"a">> ELSE <<>>]
    /\ warning = [s \in Sessions |-> FALSE]
    /\ pc = [s \in Sessions |-> IF s \in Solo THEN "active" ELSE "instructions"]
    /\ chosen = [s \in Sessions |-> {}]
    /\ first_order = EmptyMap
    /\ durable = EmptyMap

KeyInit ==
    \/ Init
    \/ \E pos \in KeyPositions, other \in KeyPositions : OnPage(pos, other)

KeyNext ==
    \/ \E s \in Solo, name \in DuoNames : StartResume(s, name)
    \/ \E s \in Solo, a \in SoloAnchorOrders, f \in [AnchorLabels -> SoloSampleOrders] :
          ScriptRun(s, a, f)
    \/ \E s \in Solo : \E k \in ClickedKeys(trial_index[s]), v \in UserPicks : SelectRating(s, k, v)
    \/ \E s \in Solo : NextSubmit(s)
    \/ \E s \in Solo : SaveWrite(s)

KeySpec == KeyInit /\ [][KeyNext]_vars

(***************************************************************************)
(* Properties.                                                             *)
(***************************************************************************)
\* The completion step has run for pid: it leaves <pid>_final.csv behind.
Completed == DOMAIN final

IsPermutation(order) ==
    /\ Len(order) = df_rows
    /\ {order[i] : i \in 1..Len(order)} = 0..(df_rows - 1)

IsPrefix(a, b) == Len(a) <= Len(b) /\ SubSeq(b, 1, Len(a)) = a

\* The session has just been restored from a stored snapshot: it has an
\* index past 0 and has not drawn the flags of any position yet.
JustResumed(s) ==
    /\ participant_id[s] # None
    /\ pc[s] = "rerun"
    /\ DOMAIN anchor[s] = {}
    /\ trial_index[s] >= 1

\* Session s goes from the instructions page to participant pid in this step.
Enters(s, pid) == participant_id[s] = None /\ participant_id'[s] = pid /\ pid # None

\* C1: a participant for whom the completion step has run is never shown a
\* trial again, whatever session the name is entered in afterwards.
C1_NoTrialAfterCompletion ==
    \A s \in Sessions : pc[s] = "active" => participant_id[s] \notin Completed

\* A Start / Resume step over a stored snapshot with k >= 1 responses sets
\* trial_index to k and restores the stored trial_order and responses.
C2_ResumeStep ==
    \A s \in Sessions :
        LET pid == participant_id'[s]
        IN  (/\ Enters(s, pid)
             /\ pid \in DOMAIN progress
             /\ progress[pid].kind = "snapshot"
             /\ Len(progress[pid].responses) >= 1)
            => /\ trial_index'[s] = Len(progress[pid].responses)
               /\ trial_order'[s] = progress[pid].trial_order
               /\ responses'[s] = progress[pid].responses

\* The position a session presents is the first one without a response.
C2_PresentedHasNoResponse ==
    \A s \in Sessions : pc[s] = "active" => trial_index[s] = Len(responses[s])

\* C2: Start / Resume over a stored snapshot with k >= 1 responses sets
\* trial_index to k and restores the stored trial_order and responses, so
\* that the session presents position k next and no position that has a
\* stored response.
C2_ResumeAtStoredIndex == [][C2_ResumeStep]_vars /\ []C2_PresentedHasNoResponse

\* A session restored at an index between 1 and TOTAL_TRIALS - 1.
C2_Witness ==
    \E s \in Sessions :
        /\ JustResumed(s)
        /\ trial_index[s] < TOTAL_TRIALS
        /\ participant_id[s] \in DOMAIN progress
        /\ responses[s] = progress[participant_id[s]].responses

\* C3: on the page of a trial the Next button is enabled exactly when the
\* participant has chosen all four ratings of the position.
C3_NextOnlyWhenAllChosen ==
    \A s \in Sessions :
        pc[s] = "active" => (all_selected(s) <=> TrialKeys(trial_index[s]) \subseteq chosen[s])

\* A session that rests on a page with TOTAL_TRIALS responses is on the
\* completion page.
C4_CompleteAfterAll ==
    \A s \in Sessions :
        (pc[s] \in Pages /\ participant_id[s] # None /\ Len(responses[s]) = TOTAL_TRIALS)
        => pc[s] = "complete"

\* A session whose index has reached TOTAL_TRIALS and whose last save is
\* over keeps its responses and its index and writes no snapshot.
C4_NoWriteStep ==
    \A s \in Sessions :
        (/\ participant_id[s] # None
         /\ trial_index[s] >= TOTAL_TRIALS
         /\ pc[s] # "saving"
         /\ participant_id'[s] = participant_id[s])
        => /\ responses'[s] = responses[s]
           /\ trial_index'[s] = trial_index[s]
           /\ participant_id[s] \in DOMAIN progress' =>
                 /\ participant_id[s] \in DOMAIN progress
                 /\ progress'[participant_id[s]] = progress[participant_id[s]]

\* C4: after TOTAL_TRIALS submissions the session is on the completion
\* page, and from then on no step of the session appends a response,
\* changes trial_index or writes the progress snapshot.
C4_CompleteIsFinal == []C4_CompleteAfterAll /\ [][C4_NoWriteStep]_vars

\* The completion page is being run again.
C4_Witness ==
    \E s \in Sessions :
        /\ pc[s] = "rerun"
        /\ Len(responses[s]) = TOTAL_TRIALS
        /\ participant_id[s] \in Completed

\* A Start / Resume step over a file that a crash left half-written, with
\* an earlier snapshot written in full.
C5_CrashStep ==
    \A s \in Sessions :
        LET pid == participant_id'[s]
        IN  (/\ Enters(s, pid)
             /\ pid \in DOMAIN progress
             /\ progress[pid].kind = "truncated"
             /\ pid \in DOMAIN durable
             /\ \A t \in Sessions : pc[t] # "saving")
            => /\ IsPrefix(durable[pid].responses, responses'[s])
               /\ trial_index'[s] >= durable[pid].trial_index

\* C5: after a crash inside save_progress, the next Start / Resume of the
\* participant restores at least the responses, and the index, of the last
\* snapshot written in full.
C5_CrashKeepsStored == [][C5_CrashStep]_vars

\* C6: the trial order a session uses is the one first generated for its
\* participant.
C6_OrderStable ==
    \A s \in Sessions :
        (participant_id[s] # None /\ trial_order[s] # None)
        => trial_order[s] = first_order[participant_id[s]]

\* C7: the trial order of a session with a participant is a permutation of
\* 0 .. len(df) - 1.
C7_OrderIsPermutation ==
    \A s \in Sessions : participant_id[s] # None => IsPermutation(trial_order[s])

\* A session restored from a snapshot with an order that is not the identity.
C7_Witness ==
    \E s \in Sessions :
        /\ JustResumed(s)
        /\ df_rows = TOTAL_TRIALS
        /\ trial_order[s][1] # 0

\* A Start / Resume step over a progress file that holds no snapshot.
C8_MalformedStep ==
    \A s \in Sessions :
        LET pid == participant_id'[s]
        IN  (/\ Enters(s, pid)
             /\ pid \in DOMAIN progress
             /\ progress[pid].kind # "snapshot")
            => /\ pc'[s] # "error"
               /\ trial_index'[s] = 0
               /\ responses'[s] = <<>>
               /\ IsPermutation(trial_order'[s])

\* C8: Start / Resume over a progress file that holds no snapshot starts a
\* new session at trial 0 with a shuffled order and no responses, and does
\* not end on the exception page.
C8_MalformedIsNoProgress == [][C8_MalformedStep]_vars

OnlyWhitespace(name) == \A i \in 1..Len(name) : name[i] \in Whitespace

\* A step that puts a name of whitespace only (or no name) into the name
\* field of a session without participant.
C9_BlankStep ==
    \A s \in Sessions :
        (/\ participant_id[s] = None
         /\ name_input'[s] # name_input[s]
         /\ OnlyWhitespace(name_input'[s]))
        => /\ participant_id'[s] = None
           /\ trial_order'[s] = trial_order[s]
           /\ trial_index'[s] = trial_index[s]
           /\ responses'[s] = responses[s]
           /\ progress' = progress
           /\ final' = final
           /\ pc'[s] = "instructions"

\* C9: a Start / Resume click with a name of whitespace only (or no name)
\* leaves the session without participant, its order, index and responses
\* as they were, the files untouched, and the instructions page in place.
C9_BlankNameChangesNothing == [][C9_BlankStep]_vars

\* The warning is on the page of a session that entered a blank name while
\* a progress file exists.
C9_Witness ==
    \E s \in Sessions :
        /\ warning[s]
        /\ Len(name_input[s]) >= 1
        /\ participant_id[s] = None
        /\ progress # EmptyMap

\* C10: two sessions have the same participant ID exactly when the names
\* entered in them have the same normalized form (trimmed, spaces replaced
\* by underscores, upper-cased).
C10_SameIdIffSameCleanName ==
    \A s, t \in Sessions :
        (participant_id[s] # None /\ participant_id[t] # None)
        => (participant_id[s] = participant_id[t]
               <=> CleanName(name_input[s]) = CleanName(name_input[t]))

\* Two different texts of the same length with one participant ID.
C10_Witness ==
    \E s, t \in Sessions :
        /\ participant_id[s] # None
        /\ participant_id[s] = participant_id[t]
        /\ name_input[s] # name_input[t]
        /\ Len(name_input[s]) = Len(name_input[t])

\* A session with a participant holds as many responses as its trial_index.
C11_CountIsIndex ==
    \A s \in Sessions : participant_id[s] # None => Len(responses[s]) = trial_index[s]

\* The i-th response of a session is the one of position i - 1 of its
\* order, with the rating keys of that position.
C11_OnePerPosition ==
    \A s \in Sessions :
        \A i \in 1..Len(responses[s]) :
            /\ responses[s][i].trial_id = trial_order[s][i]
            /\ \A k \in DOMAIN responses[s][i].ratings : k[2] = i - 1

\* A step of a session that keeps its participant and changes its responses
\* or its index appends one response, for the position the page showed,
\* and adds 1 to the index.
C11_SubmitStep ==
    \A s \in Sessions :
        (/\ participant_id[s] # None
         /\ participant_id'[s] = participant_id[s]
         /\ <<responses'[s], trial_index'[s]>> # <<responses[s], trial_index[s]>>)
        => /\ pc[s] = "active"
           /\ Len(responses'[s]) = Len(responses[s]) + 1
           /\ SubSeq(responses'[s], 1, Len(responses[s])) = responses[s]
           /\ responses'[s][Len(responses'[s])].trial_id = trial_order[s][trial_index[s] + 1]
           /\ trial_index'[s] = trial_index[s] + 1

\* C11: a session holds as many responses as its trial_index, the i-th of
\* them for position i - 1; a Next submission appends exactly one response
\* and adds exactly 1 to trial_index, and no other step of the session,
\* the rerun after the submission included, changes either.
C11_OneResponsePerAdvance ==
    []C11_CountIsIndex /\ []C11_OnePerPosition /\ [][C11_SubmitStep]_vars

\* The page of a later position, shown by the rerun that followed the
\* submission of the position before it in the same session.
C11_Witness ==
    \E s \in Sessions :
        /\ pc[s] = "active"
        /\ trial_index[s] >= 1
        /\ (trial_index[s] - 1) \in DOMAIN anchor[s]
        /\ Len(responses[s]) = trial_index[s]

\* C12: whenever a run looks up the current trial (a participant is set and
\* trial_index < TOTAL_TRIALS), 0 <= trial_index < len(trial_order), for
\* every catalog size len(df) >= 1; no run ends on the exception page.
C12_IndexInRange ==
    \A s \in Sessions :
        /\ (participant_id[s] # None /\ pc[s] \in {"rerun", "active"} /\ ~IsComplete(s))
           => (0 <= trial_index[s] /\ trial_index[s] < Len(trial_order[s]))
        /\ pc[s] # "error"

\* A step that leaves a snapshot written in full in the progress file of a
\* participant keeps the responses of the one written in full before it.
C13_WriteStep ==
    \A pid \in (DOMAIN durable) \cap (DOMAIN durable') :
        IsPrefix(durable[pid].responses, durable'[pid].responses)

\* C13: with two sessions open for one participant ID, whose Start /
\* Resume, Next and save_progress steps interleave, the responses stored in
\* the progress snapshot only grow: every write keeps the responses the
\* snapshot held and appends to them.
C13_StoredOnlyGrows == [][C13_WriteStep]_vars

\* A step of a running session keeps every order flag the session holds.
C14_FlagStep ==
    \A s \in Sessions :
        (participant_id[s] # None /\ participant_id'[s] = participant_id[s])
        => /\ \A pos \in DOMAIN anchor[s] :
                 pos \in DOMAIN anchor'[s] /\ anchor'[s][pos] = anchor[s][pos]
           /\ \A k \in DOMAIN ab[s] :
                 k \in DOMAIN ab'[s] /\ ab'[s][k] = ab[s][k]

\* The page of a position shows with its anchor order and, under each
\* anchor, its sample order drawn.
C14_FlagsDrawn ==
    \A s \in Sessions :
        pc[s] = "active"
        => /\ trial_index[s] \in DOMAIN anchor[s]
           /\ \A l \in AnchorLabels : <<trial_index[s], l>> \in DOMAIN ab[s]

\* C14: within a session the anchor order of a trial position and the
\* sample order under each of its anchors are drawn at the first render of
\* the position and keep their value in every later run, whatever
\* random.choice would return to that run.
C14_FlagsFixed == []C14_FlagsDrawn /\ [][C14_FlagStep]_vars

\* The page of the second position, shown again by the run a click on one
\* of its radios triggered, with flags that are not all the first outcome.
C14_Witness ==
    \E s \in Sessions :
        /\ pc[s] = "active"
        /\ trial_index[s] >= 1
        /\ chosen[s] # {}
        /\ anchor[s][trial_index[s]] = "indian_first"
        /\ ab[s][<<trial_index[s], "Native Accent">>] = "B_first"
        /\ ab[s][<<trial_index[s], "Indian Accent">>] = "A_first"

\* The ratings of the response of position pos: one entry for each of the
\* four radios of the position and no other, each an option of the radio,
\* under four different key texts.
WellFormedRatings(ratings, pos) ==
    /\ DOMAIN ratings = TrialKeys(pos)
    /\ Cardinality(DOMAIN ratings) = 4
    /\ Cardinality({KeyText(k) : k \in DOMAIN ratings}) = 4
    /\ \A k \in DOMAIN ratings : ratings[k] \in 1..5

\* C15: the response recorded for trial position i has a ratings mapping
\* with exactly four entries, one for each pair of {Native Accent, Indian
\* Accent} x {Sample A, Sample B}, each value in 1..5, and no rating of
\* another position, positions of two digits included; the same holds for
\* the responses of the final export.
C15_RatingsOfThePosition ==
    /\ \A s \in Sessions :
          \A i \in 1..Len(responses[s]) : WellFormedRatings(responses[s][i].ratings, i - 1)
    /\ \A pid \in DOMAIN final :
          \A i \in 1..Len(final[pid]) : WellFormedRatings(final[pid][i].ratings, i - 1)

\* The response of position 1 is recorded by a session whose
\* st.session_state also holds the rating keys of a position from 10 on.
C15_Witness ==
    \E s \in Sessions :
        /\ pc[s] = "saving"
        /\ Len(responses[s]) = 2
        /\ \E k \in DOMAIN rating[s] : k[2] >= 10

\* trial_index is between 0 and TOTAL_TRIALS.
C16_IndexInBounds ==
    \A s \in Sessions : 0 <= trial_index[s] /\ trial_index[s] <= TOTAL_TRIALS

\* A step that changes the trial_index of a session is Start / Resume,
\* which sets it from 0 when the session gets its participant, or an
\* accepted Next below TOTAL_TRIALS, which adds 1; or the session is over.
C16_IndexStep ==
    \A s \in Sessions :
        trial_index'[s] # trial_index[s]
        => \/ /\ participant_id[s] = None
              /\ participant_id'[s] # None
              /\ pc[s] = "instructions"
              /\ trial_index[s] = 0
           \/ /\ participant_id[s] # None
              /\ participant_id'[s] = participant_id[s]
              /\ pc[s] = "active"
              /\ trial_index[s] < TOTAL_TRIALS
              /\ trial_index'[s] = trial_index[s] + 1
           \/ /\ participant_id[s] # None
              /\ participant_id'[s] = None

\* C16: 0 <= trial_index <= TOTAL_TRIALS in every state, and within a
\* session trial_index never decreases: it changes only when Start /
\* Resume sets it, once, from 0 or the stored snapshot, and when a Next
\* accepted at trial_index < TOTAL_TRIALS adds 1.
C16_IndexBoundedMonotone == []C16_IndexInBounds /\ [][C16_IndexStep]_vars

\* A session restored at the last position has submitted it: its index was
\* set by Start / Resume and raised to TOTAL_TRIALS by Next.
C16_Witness ==
    \E s \in Sessions :
        /\ pc[s] = "saving"
        /\ trial_index[s] = TOTAL_TRIALS
        /\ DOMAIN anchor[s] = {TOTAL_TRIALS - 1}

\* The step in which a session enters the completion page leaves the final
\* export of its participant with TOTAL_TRIALS responses, the i-th for
\* position i - 1 of the order, and no progress file.
C17_CompletionStep ==
    \A s \in Sessions :
        (pc'[s] = "complete" /\ pc[s] # "complete")
        => LET pid == participant_id[s]
           IN  /\ pid \in DOMAIN final'
               /\ Len(final'[pid]) = TOTAL_TRIALS
               /\ \A i \in 1..Len(final'[pid]) :
                     /\ final'[pid][i].trial_id = trial_order[s][i]
                     /\ DOMAIN final'[pid][i].ratings = TrialKeys(i - 1)
               /\ pid \notin DOMAIN progress'

\* While a session is on the completion page, the export is in place and
\* the progress file is absent.
C17_OnCompletePage ==
    \A s \in Sessions :
        pc[s] = "complete"
        => /\ participant_id[s] \in DOMAIN final
           /\ Len(final[participant_id[s]]) = TOTAL_TRIALS
           /\ participant_id[s] \notin DOMAIN progress

\* C17: when a session enters the completion page, the final export of
\* its participant holds exactly TOTAL_TRIALS responses, one for each
\* position 0 .. TOTAL_TRIALS - 1 in order, and the progress file of the
\* participant does not exist afterwards; also for a session restored,
\* after a crash, from a snapshot whose trial_index is TOTAL_TRIALS.
C17_ExportOnComplete == []C17_OnCompletePage /\ [][C17_CompletionStep]_vars

\* A session restored at TOTAL_TRIALS, which has shown no trial, is on the
\* completion page.
C17_Witness ==
    \E s \in Sessions :
        /\ pc[s] = "complete"
        /\ DOMAIN anchor[s] = {}
        /\ trial_index[s] = TOTAL_TRIALS

====
